---- MODULE Spec2Model ----
(***************************************************************************)
(* A model of the Entur Situation Exchange integration:                    *)
(*   - EnturSXApiClient._parse_response      (api.py)                      *)
(*   - EnturSXSensor.native_value            (sensor.py)                   *)
(*   - EnturSXSensor.extra_state_attributes  (sensor.py)                   *)
(*   - EnturSXSummarySensor                  (sensor.py)                   *)
(*   - EnturSXDataUpdateCoordinator          (coordinator.py)              *)
(*   - async_setup_entry                     (__init__.py)                 *)
(*                                                                         *)
(* Python strings are sequences of one-character strings, so that lower(), *)
(* slicing, joining and len() are computed as Python computes them.        *)
(* Python None is the one-element sequence None (no string has an element  *)
(* longer than one character, so it is distinct from every string).        *)
(* A time string of the feed is a record: "aware" (wall-clock seconds plus *)
(* UTC offset), "naive" (wall-clock seconds in the host's zone), "bad" (a  *)
(* string datetime.fromisoformat rejects) or "none" (absent / null).       *)
(***************************************************************************)
EXTENDS Integers, Sequences, FiniteSets, TLC

VARIABLES
    now,                  \* the host clock, datetime.now().timestamp()
    lines,                \* EnturSXApiClient._lines, the watch-list
    feed,                 \* the PtSituationElement list the upstream serves
    parsed_at,            \* now_timestamp of the last _parse_response call
    data,                 \* coordinator.data, what the sensors read
    sensor_value,         \* EnturSXSensor.native_value per line, as last read
    line_attributes,      \* EnturSXSensor.extra_state_attributes per line,
                          \* as last read
    summary_value,        \* EnturSXSummarySensor.native_value, as last read
    summary_attributes,   \* EnturSXSummarySensor.extra_state_attributes,
                          \* as last read
    cached_data,          \* coordinator._cached_data
    throttle_count,       \* coordinator._throttle_count
    in_backoff,           \* coordinator._in_backoff
    update_interval,      \* coordinator.update_interval, seconds
    last_success_time,    \* coordinator._last_success_time (<<>> is None)
    previous_disruptions, \* coordinator._previous_disruptions
    outcome,              \* how the last _async_update_data ended
    events,               \* NEW / REMOVED records logged by the last cycle
    run,                  \* update_interval after each 429 of the current run
    last_cycle,           \* how the last cycle ended, and the backoff state
                          \* it started from
    last_good,            \* the snapshot the last successful cycle returned
    success_since,        \* when the current unbroken run of successful
                          \* cycles began (<<>> outside such a run)
    prior_good,           \* the snapshot the successful cycle before
                          \* that one returned
    entry,                \* how far async_setup_entry has come: whether the
                          \* coordinator is in hass.data and whether the
                          \* sensor platform is set up
    fetching,             \* _async_update_data is awaiting the response
    config_entry,         \* the ConfigEntry: entry_id, data and options
    entity_registry,      \* unique ids of the registry entities of the entry
    entities,             \* the sensors handed to async_add_entities
    removed               \* unique ids the last platform setup passed to
                          \* entity_registry.async_remove

vars == <<now, lines, feed, parsed_at, data, sensor_value, line_attributes,
          summary_value, summary_attributes, cached_data, throttle_count,
          in_backoff, update_interval, last_success_time,
          previous_disruptions, outcome, events, run, last_cycle, last_good,
          success_since, prior_good, entry, fetching, config_entry,
          entity_registry, entities, removed>>

\* the config entry and the sensor platform; they are followed in SetupSpec,
\* the other specifications keep the entry as created and let the sensors be
\* those of `lines`
setup_vars == <<config_entry, entity_registry, entities, removed>>

-----------------------------------------------------------------------------
(* Bounds of the model *)

MaxTicks == 5
MaxParseTicks == 4
TimeStep == 900
MaxElems == 3
MaxThrottle == 4
SystemUtcOffset == 3600

-----------------------------------------------------------------------------
(* Program constants *)

UPDATE_INTERVAL == 60
BACKOFF_INITIAL == 120
BACKOFF_MULTIPLIER_NUM == 5
BACKOFF_MULTIPLIER_DEN == 2
BACKOFF_MAX == 600
BACKOFF_RESET_AFTER == 1800
DISPLAY_LIMIT == 255
TRUNCATED_LEN == 252
ELLIPSIS_LEN == 3
ID_SUMMARY_LEN == 50

STATUS_PLANNED == "planned"
STATUS_OPEN == "open"
STATUS_EXPIRED == "expired"

STATE_NORMAL == <<"N","o","r","m","a","l"," ","s","e","r","v","i","c","e">>

-----------------------------------------------------------------------------
(* Python values *)

None == <<"<None>">>

Min(a, b) == IF a <= b THEN a ELSE b

Rep(c, n) == [i \in 1..n |-> c]

\* s[:n] for n >= 0
Take(s, n) == SubSeq(s, 1, Min(n, Len(s)))

\* str.lower() on the letters the model uses
LowerChar(c) ==
    CASE c = "C" -> "c"
      [] c = "L" -> "l"
      [] c = "O" -> "o"
      [] c = "S" -> "s"
      [] c = "E" -> "e"
      [] c = "D" -> "d"
      [] OTHER -> c

Lower(s) == [i \in 1..Len(s) |-> LowerChar(s[i])]

RECURSIVE Concat(_)
Concat(seqs) ==
    IF seqs = <<>> THEN <<>> ELSE Head(seqs) \o Concat(Tail(seqs))

RECURSIVE Join(_, _)
\* sep.join(strs)
Join(strs, sep) ==
    IF Len(strs) = 0 THEN <<>>
    ELSE IF Len(strs) = 1 THEN strs[1]
    ELSE strs[1] \o sep \o Join(Tail(strs), sep)

DigitChar(d) == <<"0","1","2","3","4","5","6","7","8","9">>[d + 1]

RECURSIVE Decimal(_)
\* str(n) for n >= 0
Decimal(n) ==
    IF n < 10 THEN <<DigitChar(n)>>
    ELSE Decimal(n \div 10) \o <<DigitChar(n % 10)>>

NoTime == [kind |-> "none", wall |-> 0, off |-> 0]
BadTime == [kind |-> "bad", wall |-> 0, off |-> 0]
Aware(wall, off) == [kind |-> "aware", wall |-> wall, off |-> off]
Naive(wall) == [kind |-> "naive", wall |-> wall, off |-> 0]

\* datetime.fromisoformat(s) raises ValueError
Unparsable(t) == t.kind = "bad"

\* `not s` for a time string or None
Falsy(t) == t.kind = "none"

\* datetime.fromisoformat(s).timestamp() of a parsable string
Timestamp(t) ==
    IF t.kind = "naive" THEN t.wall - SystemUtcOffset ELSE t.wall - t.off

\* datetime.now().isoformat()
IsoNow(clock) == Naive(clock + SystemUtcOffset)

-----------------------------------------------------------------------------
(* EnturSXApiClient._parse_response *)

\* progress.lower() == "closed"
progress_is_closed(progress) == Lower(progress) = <<"c","l","o","s","e","d">>

StatusTrustsProgress(progress, start_time, end_time, now_timestamp) ==
    IF progress_is_closed(progress) THEN STATUS_EXPIRED
    ELSE IF now_timestamp < Timestamp(start_time) THEN STATUS_PLANNED
    ELSE IF ~Falsy(end_time) /\ now_timestamp > Timestamp(end_time)
         THEN STATUS_EXPIRED
    ELSE STATUS_OPEN

StatusStrictWindow(progress, start_time, end_time, now_timestamp) ==
    IF now_timestamp <= Timestamp(start_time) THEN STATUS_PLANNED
    ELSE IF ~Falsy(end_time) /\ now_timestamp >= Timestamp(end_time)
         THEN STATUS_EXPIRED
    ELSE IF progress_is_closed(progress) THEN STATUS_EXPIRED
    ELSE STATUS_OPEN

StatusIgnoresEnd(progress, start_time, end_time, now_timestamp) ==
    IF now_timestamp < Timestamp(start_time) THEN STATUS_PLANNED
    ELSE IF progress_is_closed(progress) THEN STATUS_EXPIRED
    ELSE STATUS_OPEN

\* the status of an entry whose time strings parse
Status(progress, start_time, end_time, now_timestamp) ==
    IF now_timestamp < Timestamp(start_time) THEN STATUS_PLANNED
    ELSE IF ~Falsy(end_time) THEN
        IF now_timestamp > Timestamp(end_time) THEN STATUS_EXPIRED
        ELSE IF progress_is_closed(progress) THEN STATUS_EXPIRED
        ELSE STATUS_OPEN
    ELSE IF progress_is_closed(progress) THEN STATUS_EXPIRED
    ELSE STATUS_OPEN

\* what the loop body does with one element, before the line matching:
\* "raise" (an exception leaves the loops), "skip" (continue) or "emit"
ElementOutcome(element, now_timestamp) ==
    IF element.Progress = None THEN "raise"
    ELSE IF element.Networks = <<>> THEN "skip"
    ELSE IF element.ValidityPeriod = <<>> THEN "skip"
    ELSE LET start_time == element.ValidityPeriod[1].StartTime
             end_time == element.ValidityPeriod[1].EndTime
         IN  IF Falsy(start_time) THEN "skip"
             ELSE IF Unparsable(start_time) THEN "raise"
             ELSE IF now_timestamp < Timestamp(start_time) THEN "emit"
             ELSE IF ~Falsy(end_time) /\ Unparsable(end_time) THEN "raise"
             ELSE "emit"

\* the LineRef values of all AffectedLine entries of all AffectedNetwork
\* entries, in document order
LineRefs(element) == Concat(element.Networks[1])

FirstValue(texts) == IF texts = <<>> THEN STATE_NORMAL ELSE texts[1]

\* the dict appended to items for a matching affected line
ItemOf(element, now_timestamp) ==
    LET start_time == element.ValidityPeriod[1].StartTime
        end_time == element.ValidityPeriod[1].EndTime
    IN  [valid_from |-> start_time,
         valid_to |-> end_time,
         summary |-> FirstValue(element.Summary),
         description |-> FirstValue(element.Description),
         status |-> Status(element.Progress, start_time, end_time,
                           now_timestamp),
         progress |-> Lower(element.Progress)]

\* the positions of the affected lines equal to look_for
Matches(element, look_for) ==
    LET refs == LineRefs(element)
    IN  SelectSeq([i \in 1..Len(refs) |-> i], LAMBDA i : refs[i] = look_for)

\* the items one element contributes to the list of look_for
ElementItems(element, look_for, now_timestamp) ==
    IF ElementOutcome(element, now_timestamp) = "emit"
    THEN [i \in 1..Len(Matches(element, look_for)) |->
             ItemOf(element, now_timestamp)]
    ELSE <<>>

status_priority(status) ==
    CASE status = STATUS_OPEN -> 0
      [] status = STATUS_PLANNED -> 1
      [] status = STATUS_EXPIRED -> 2
      [] OTHER -> 3

SortKeyOldestFirst(a, b) ==
    \/ status_priority(a.status) < status_priority(b.status)
    \/ /\ status_priority(a.status) = status_priority(b.status)
       /\ Timestamp(a.valid_from) <= Timestamp(b.valid_from)

\* key(a) <= key(b) for the sort key (priority, -start timestamp)
SortKeyLE(a, b) ==
    \/ status_priority(a.status) < status_priority(b.status)
    \/ /\ status_priority(a.status) = status_priority(b.status)
       /\ 0 - Timestamp(a.valid_from) <= 0 - Timestamp(b.valid_from)

RECURSIVE SortItems(_)
\* list.sort(key=...): stable, ascending by key
SortItems(items) ==
    IF Len(items) <= 1 THEN items
    ELSE LET rest == SortItems(SubSeq(items, 1, Len(items) - 1))
             x == items[Len(items)]
             k == Cardinality({i \in 1..Len(rest) : SortKeyLE(rest[i], x)})
         IN  SubSeq(rest, 1, k) \o <<x>> \o SubSeq(rest, k + 1, Len(rest))

Chars_normal == <<"n","o","r","m","a","l">>
Chars_error == <<"e","r","r","o","r">>

\* the default entry; progress is "normal" or "error"
DefaultItem(now_timestamp, progress) ==
    [valid_from |-> IsoNow(now_timestamp),
     valid_to |-> NoTime,
     summary |-> STATE_NORMAL,
     description |-> STATE_NORMAL,
     status |-> STATUS_OPEN,
     progress |-> progress]

\* items after the loop over the elements, when no element raised
CollectItems(elements, look_for, now_timestamp) ==
    Concat([i \in 1..Len(elements) |->
               ElementItems(elements[i], look_for, now_timestamp)])

\* allitems_dict[look_for]
LineItems(elements, look_for, now_timestamp) ==
    IF \E i \in 1..Len(elements) :
           ElementOutcome(elements[i], now_timestamp) = "raise"
    THEN <<DefaultItem(now_timestamp, Chars_error)>>
    ELSE LET items == CollectItems(elements, look_for, now_timestamp)
         IN  IF items # <<>> THEN SortItems(items)
             ELSE <<DefaultItem(now_timestamp, Chars_normal)>>

\* the dict _parse_response returns
ParseResponseFirstLineOnly(elements, watch, now_timestamp) ==
    [look_for \in {watch[1]} |->
        LineItems(elements, look_for, now_timestamp)]

\* _parse_response: the mapping built in the local allitems_dict and
\* returned whole
ParseResponse(elements, watch, now_timestamp) ==
    [look_for \in {watch[i] : i \in 1..Len(watch)} |->
        LineItems(elements, look_for, now_timestamp)]

-----------------------------------------------------------------------------
(* EnturSXSensor.native_value *)

TypeErrorRaised == <<"<TypeError>">>

Ellipsis == <<".", ".", ".">>
Separator == <<" ", "|", " ">>
SeparatorComma == <<",", " ">>
Chars_active_disruptions ==
    <<" ","a","c","t","i","v","e"," ","d","i","s","r","u","p","t","i","o",
      "n","s",":"," ">>

\* coordinator.data: None, or the dict of the last cycle
NoData == [isNone |-> TRUE, dict |-> <<>>]
Dict(d) == [isNone |-> FALSE, dict |-> d]

\* `not self.coordinator.data`
DataFalsy(coordinator_data) ==
    coordinator_data.isNone \/ DOMAIN coordinator_data.dict = {}

\* self.coordinator.data.get(line_ref, [])
LineData(coordinator_data, line_ref) ==
    IF line_ref \in DOMAIN coordinator_data.dict
    THEN coordinator_data.dict[line_ref]
    ELSE <<>>

CurrentlyActiveAnyStatus(item, now_timestamp) ==
    /\ ~Falsy(item.valid_from)
    /\ ~Unparsable(item.valid_from)
    /\ ~(now_timestamp < Timestamp(item.valid_from))
    /\ \/ Falsy(item.valid_to)
       \/ /\ ~Unparsable(item.valid_to)
          /\ ~(now_timestamp > Timestamp(item.valid_to))

\* the filter of the loop over line_data: the item is appended to
\* active_disruptions
CurrentlyActive(item, now_timestamp) ==
    /\ item.status = STATUS_OPEN
    /\ ~Falsy(item.valid_from)
    /\ ~Unparsable(item.valid_from)
    /\ ~(now_timestamp < Timestamp(item.valid_from))
    /\ \/ Falsy(item.valid_to)
       \/ /\ ~Unparsable(item.valid_to)
          /\ ~(now_timestamp > Timestamp(item.valid_to))

active_disruptions(line_data, now_timestamp) ==
    SelectSeq(line_data, LAMBDA item : CurrentlyActive(item, now_timestamp))

SingleSummaryUncut(summary) ==
    IF summary = None THEN TypeErrorRaised ELSE summary

\* the value for exactly one active disruption
SingleSummary(summary) ==
    IF summary = None THEN TypeErrorRaised
    ELSE IF Len(summary) > DISPLAY_LIMIT
         THEN Take(summary, TRUNCATED_LEN) \o Ellipsis
    ELSE summary

CombinedSummaryComma(summaries) ==
    IF \E i \in 1..Len(summaries) : summaries[i] = None
    THEN TypeErrorRaised
    ELSE Join(summaries, SeparatorComma)

\* the value for several active disruptions
CombinedSummary(summaries) ==
    IF \E i \in 1..Len(summaries) : summaries[i] = None
    THEN TypeErrorRaised
    ELSE LET combined == Join(summaries, Separator)
         IN  IF Len(combined) > DISPLAY_LIMIT
             THEN LET count_prefix == Decimal(Len(summaries))
                                         \o Chars_active_disruptions
                      max_summary_len == DISPLAY_LIMIT - Len(count_prefix)
                                            - ELLIPSIS_LEN
                  IN  count_prefix \o Take(summaries[1], max_summary_len)
                         \o Ellipsis
             ELSE combined

\* EnturSXSensor.native_value of the sensor of line_ref
native_value(coordinator_data, line_ref, now_timestamp) ==
    IF DataFalsy(coordinator_data) THEN None
    ELSE LET active == active_disruptions(
                           LineData(coordinator_data, line_ref),
                           now_timestamp)
         IN  IF active = <<>> THEN STATE_NORMAL
             ELSE IF Len(active) = 1 THEN SingleSummary(active[1].summary)
             ELSE CombinedSummary([i \in 1..Len(active) |->
                                      active[i].summary])

StatusCountsHeadOnly(line_data) ==
    [status \in {line_data[1].status} |-> 1]

\* status_counts of EnturSXSensor.extra_state_attributes
StatusCounts(line_data) ==
    [status \in {line_data[i].status : i \in 1..Len(line_data)} |->
        Cardinality({i \in 1..Len(line_data) :
                        line_data[i].status = status})]

\* EnturSXSensor.extra_state_attributes of the sensor of line_ref
extra_state_attributes(coordinator_data, line_ref) ==
    IF DataFalsy(coordinator_data) THEN None
    ELSE LET line_data == LineData(coordinator_data, line_ref)
         IN  IF line_data = <<>> THEN None
             ELSE LET current == line_data[1]
                      attrs == [valid_from |-> current.valid_from,
                                valid_to |-> current.valid_to,
                                summary |-> current.summary,
                                description |-> current.description,
                                status |-> current.status,
                                progress |-> current.progress,
                                line_ref |-> line_ref]
                  IN  IF Len(line_data) > 1
                      THEN attrs @@
                           [all_deviations |-> line_data,
                            total_deviations |-> Len(line_data),
                            deviations_by_status |->
                                StatusCounts(line_data)]
                      ELSE attrs

-----------------------------------------------------------------------------
(* EnturSXSummarySensor *)

Chars_1_active_disruption ==
    <<"1"," ","a","c","t","i","v","e"," ","d","i","s","r","u","p","t","i",
      "o","n">>
Chars_n_active_disruptions ==
    <<" ","a","c","t","i","v","e"," ","d","i","s","r","u","p","t","i","o",
      "n","s">>

\* active_count of EnturSXSummarySensor.native_value
active_count(coordinator_data, watch) ==
    Cardinality({i \in 1..Len(watch) :
        LET line_data == LineData(coordinator_data, watch[i])
        IN  line_data # <<>> /\ line_data[1].status = STATUS_OPEN})

\* EnturSXSummarySensor.native_value
summary_native_value(coordinator_data, watch) ==
    IF DataFalsy(coordinator_data) THEN STATE_NORMAL
    ELSE LET n == active_count(coordinator_data, watch)
         IN  IF n = 0 THEN STATE_NORMAL
             ELSE IF n = 1 THEN Chars_1_active_disruption
             ELSE Decimal(n) \o Chars_n_active_disruptions

\* `not line_data or line_data[0].get("summary") == STATE_NORMAL`
head_is_normal(line_data) ==
    line_data = <<>> \/ line_data[1].summary = STATE_NORMAL

\* has_active after the loop over the deviations of one line: an entry that
\* is not expired and not planned (open, or an unknown status)
has_active(line_data) ==
    \E i \in 1..Len(line_data) :
        line_data[i].status \notin {STATUS_EXPIRED, STATUS_PLANNED}

\* has_planned after the loop over the deviations of one line
has_planned(line_data) ==
    \E i \in 1..Len(line_data) : line_data[i].status = STATUS_PLANNED

\* EnturSXSummarySensor.extra_state_attributes, without the two markdown
\* texts
summary_extra_state_attributes(coordinator_data, watch) ==
    IF DataFalsy(coordinator_data)
    THEN [total_lines |-> Len(watch),
          active_disruptions |-> 0,
          planned_disruptions |-> 0,
          normal_lines |-> Len(watch)]
    ELSE LET ListAt(i) == LineData(coordinator_data, watch[i])
             looped == {i \in 1..Len(watch) : ~head_is_normal(ListAt(i))}
             active_lines == {watch[i] : i \in
                                 {j \in looped : has_active(ListAt(j))}}
             planned_lines == {watch[i] : i \in
                                  {j \in looped : has_planned(ListAt(j))}}
             normal == SelectSeq(watch, LAMBDA line_ref :
                           LET line_data == LineData(coordinator_data,
                                                     line_ref)
                           IN  \/ head_is_normal(line_data)
                               \/ /\ ~has_active(line_data)
                                  /\ ~has_planned(line_data))
         IN  [total_lines |-> Len(watch),
              active_disruptions |-> Cardinality(active_lines),
              planned_disruptions |-> Cardinality(planned_lines),
              normal_lines |-> Len(normal),
              active_line_refs |-> active_lines,
              planned_line_refs |-> planned_lines,
              normal_line_refs |-> normal]

-----------------------------------------------------------------------------
(* EnturSXDataUpdateCoordinator *)

RECURSIVE Power(_, _)
Power(b, e) == IF e = 0 THEN 1 ELSE b * Power(b, e - 1)

backoff_time_uncapped(count) ==
    (BACKOFF_INITIAL * Power(BACKOFF_MULTIPLIER_NUM, count - 1))
        \div Power(BACKOFF_MULTIPLIER_DEN, count - 1)

\* min(BACKOFF_INITIAL * BACKOFF_MULTIPLIER ** (count - 1), BACKOFF_MAX),
\* with BACKOFF_MULTIPLIER = 2.5 as the fraction 5/2
backoff_time(count) ==
    LET num == BACKOFF_INITIAL * Power(BACKOFF_MULTIPLIER_NUM, count - 1)
        den == Power(BACKOFF_MULTIPLIER_DEN, count - 1)
    IN  IF num <= BACKOFF_MAX * den THEN num \div den ELSE BACKOFF_MAX

disruption_id_whole_summary(dev) == <<dev.summary, dev.status, dev.valid_from>>

\* f"{summary[:50]}|{status}|{valid_from}"
disruption_id(dev) ==
    <<Take(dev.summary, ID_SUMMARY_LEN), dev.status, dev.valid_from>>

\* summary[:50] raises TypeError for a None summary
TrackRaises(d) ==
    \E line_ref \in DOMAIN d :
        \E i \in 1..Len(d[line_ref]) : d[line_ref][i].summary = None

\* current_disruptions of _track_disruption_changes
current_disruptions(d) ==
    [line_ref \in DOMAIN d |->
        {disruption_id(d[line_ref][i]) : i \in 1..Len(d[line_ref])}]

baseline_assigned_first(previous, d) == current_disruptions(d)

\* self._previous_disruptions after _track_disruption_changes: it is assigned
\* in the last statement, which a raise in the first loop does not reach
baseline_after_tracking(previous, d) ==
    IF TrackRaises(d) THEN previous ELSE current_disruptions(d)

\* self._previous_disruptions.get(line_ref, set())
PreviousOf(previous, line_ref) ==
    IF line_ref \in DOMAIN previous THEN previous[line_ref] ELSE {}

\* the NEW and REMOVED records _track_disruption_changes logs
ChangeEvents(previous, current) ==
    {[line_ref |-> l, direction |-> "NEW", id |-> x] :
        <<l, x>> \in UNION {{<<l, x>> : x \in current[l]
                                          \ PreviousOf(previous, l)} :
                               l \in DOMAIN current}}
    \cup
    {[line_ref |-> l, direction |-> "REMOVED", id |-> x] :
        <<l, x>> \in UNION {{<<l, x>> : x \in PreviousOf(previous, l)
                                          \ current[l]} :
                               l \in DOMAIN current}}

NoRun == [from_backoff |-> FALSE, from_count |-> 0, intervals |-> <<>>]

\* the backoff state a cycle starts from
BackoffState ==
    [throttle_count |-> throttle_count,
     in_backoff |-> in_backoff,
     update_interval |-> update_interval]

NoCycle ==
    [kind |-> "none", at |-> 0,
     before |-> [throttle_count |-> 0, in_backoff |-> FALSE,
                 update_interval |-> UPDATE_INTERVAL]]

\* the scheduler of DataUpdateCoordinator runs the first cycle at once and
\* every later cycle update_interval seconds after the cycle before it
CycleDue ==
    \/ last_cycle.kind = "none"
    \/ now >= last_cycle.at + update_interval

interval_after_success_kept(was_in_backoff, interval) == interval

\* update_interval after the `if self._in_backoff:` block of a cycle whose
\* fetch succeeded
interval_after_success(was_in_backoff, interval) ==
    IF was_in_backoff THEN UPDATE_INTERVAL ELSE interval

\* async_setup_entry before its first refresh has ended
EntryPending == [setup |-> "pending", stored |-> FALSE, sensors |-> FALSE]

\* async_setup_entry has raised ConfigEntryNotReady
EntryNotReady == [setup |-> "not_ready", stored |-> FALSE, sensors |-> FALSE]

\* async_setup_entry has stored the coordinator in hass.data, forwarded
\* the setup to the sensor platform and returned True
EntryLoaded == [setup |-> "loaded", stored |-> TRUE, sensors |-> TRUE]

after_first_refresh_unchecked(last_update_success) == EntryLoaded

\* async_setup_entry from the end of the first refresh on
after_first_refresh(last_update_success) ==
    IF ~last_update_success THEN EntryNotReady ELSE EntryLoaded

\* the config entry after a cycle that ended with the given outcome: the
\* first refresh decides the setup, later cycles leave it alone
EntryAfter(cycle_outcome) ==
    IF entry.setup = "pending"
    THEN after_first_refresh(cycle_outcome \in {"success", "cached"})
    ELSE entry

serves_cache_always(cached) == TRUE

\* `if self._cached_data is not None` of _handle_throttle
serves_cache(cached) == ~cached.isNone

-----------------------------------------------------------------------------
(* The config entry and the sensor platform *)

\* config_data = {**entry.data, **entry.options}: a key of options takes
\* precedence; options is <<>> (no key) or <<l>> ("lines_to_check": l)
config_data(config) ==
    [lines_to_check |-> IF config.options # <<>> THEN config.options[1]
                        ELSE config.data.lines_to_check,
     create_summary_sensors |-> config.data.create_summary_sensors]

line_name_kept(line_ref) == line_ref

\* line_ref.replace(":", "_")
line_name(line_ref) ==
    [i \in 1..Len(line_ref) |-> IF line_ref[i] = ":" THEN "_" ELSE line_ref[i]]

Chars_summary == <<"s","u","m","m","a","r","y">>

\* f"{entry.entry_id}_{line_name}" and f"{entry.entry_id}_summary"
unique_id(entry_id, name) == entry_id \o <<"_">> \o name

\* expected_unique_ids of sensor.async_setup_entry
expected_unique_ids(config) ==
    LET cd == config_data(config)
    IN  {unique_id(config.entry_id, line_name(cd.lines_to_check[i])) :
             i \in 1..Len(cd.lines_to_check)}
        \cup (IF cd.create_summary_sensors
              THEN {unique_id(config.entry_id, Chars_summary)} ELSE {})

\* the unique ids of the registry entities the cleanup loop removes
unexpected(registry, config) ==
    {u \in registry : u \notin expected_unique_ids(config)}

\* the list `entities`: one EnturSXSensor per line, and the summary sensor
\* if configured
NoEntities == [line_refs |-> <<>>, summary |-> FALSE]
sensor_entities(config) ==
    [line_refs |-> config_data(config).lines_to_check,
     summary |-> config_data(config).create_summary_sensors]

\* _attr_unique_id of every sensor of the list
entity_unique_ids(config, ents) ==
    {unique_id(config.entry_id, line_name(ents.line_refs[i])) :
         i \in 1..Len(ents.line_refs)}
    \cup (IF ents.summary
          THEN {unique_id(config.entry_id, Chars_summary)} ELSE {})

\* a config entry as the config flow creates it
ConfigEntry(entry_id, lines_to_check, create_summary_sensors) ==
    [entry_id |-> entry_id,
     data |-> [lines_to_check |-> lines_to_check,
               create_summary_sensors |-> create_summary_sensors],
     options |-> <<>>]

\* no platform has been set up for the entry
PlatformInit ==
    /\ entity_registry = {}
    /\ entities = NoEntities
    /\ removed = {}

CoordinatorInit ==
    /\ parsed_at = <<>>
    /\ data = NoData
    /\ sensor_value = <<>>
    /\ line_attributes = <<>>
    /\ summary_value = <<>>
    /\ summary_attributes = <<>>
    /\ cached_data = NoData
    /\ throttle_count = 0
    /\ in_backoff = FALSE
    /\ update_interval = UPDATE_INTERVAL
    /\ last_success_time = <<>>
    /\ previous_disruptions = <<>>
    /\ outcome = "none"
    /\ events = {}
    /\ run = NoRun
    /\ last_cycle = NoCycle
    /\ last_good = NoData
    /\ success_since = <<>>
    /\ prior_good = NoData

-----------------------------------------------------------------------------
(* The inputs *)

Chars_open == <<"o","p","e","n">>
Chars_closed == <<"c","l","o","s","e","d">>
Chars_Closed == <<"C","l","o","s","e","d">>
Chars_CLOSED == <<"C","L","O","S","E","D">>
Chars_unknown == <<"x","y","z">>
TunnelX == <<"T","u","n","n","e","l"," ","X"," ","c","l","o","s","e","d">>
TunnelY == <<"T","u","n","n","e","l"," ","Y"," ","c","l","o","s","e","d">>

\* the instant k steps after the epoch of the model, written with the host's
\* UTC offset, and the same instant written with offset 0
T(k) == Aware(k * TimeStep + SystemUtcOffset, SystemUtcOffset)
TUtc(k) == Aware(k * TimeStep, 0)

Clock == {k * TimeStep : k \in 0..MaxParseTicks}

Element(progress, networks, validity, summary, description) ==
    [Progress |-> progress, Networks |-> networks,
     ValidityPeriod |-> validity, Summary |-> summary,
     Description |-> description]

Period(start_time, end_time) ==
    <<[StartTime |-> start_time, EndTime |-> end_time]>>

\* Networks: {"AffectedNetwork": [{"AffectedLine": [...]}, ...]}
Nets(affected_networks) == <<affected_networks>>

SeqsUpTo(S, n) == UNION {[1..k -> S] : k \in 0..n}

\* every combination of the fields that decide the status of one entry
StatusElements ==
    {Element(p, n, v, <<TunnelX>>, <<>>) :
        p \in {<<>>, Chars_open, Chars_closed, Chars_CLOSED, Chars_unknown,
               None},
        n \in {<<>>, Nets(<<<<"L1">>>>), Nets(<<<<"L3">>, <<"L2", "L1">>>>)},
        v \in {<<>>} \cup
              {Period(st, en) :
                  st \in {NoTime, BadTime, T(1), TUtc(2)},
                  en \in {NoTime, BadTime, T(0), TUtc(2), T(3)}}}

\* entries of several lines, statuses and shapes, to be combined in one feed
Catalogue ==
    { Element(Chars_open, Nets(<<<<"L1">>>>), Period(T(1), T(3)),
              <<TunnelY>>, <<TunnelY>>),
      Element(Chars_closed, Nets(<<<<"L1">>>>), Period(T(3), NoTime),
              <<TunnelY>>, <<>>),
      Element(Chars_open, Nets(<<<<"L1">>, <<"L2">>>>),
              Period(TUtc(2), NoTime), <<TunnelX>>, <<>>),
      Element(Chars_Closed, Nets(<<<<"L2">>>>), Period(T(0), T(1)),
              <<TunnelX>>, <<>>),
      Element(Chars_open, Nets(<<<<"L3">>>>), Period(BadTime, NoTime),
              <<TunnelX>>, <<>>),
      Element(<<>>, Nets(<<<<"L1", "L1">>>>), Period(T(2), T(0)),
              <<>>, <<>>),
      Element(Chars_open, Nets(<<<<"L1">>>>), Period(NoTime, T(3)),
              <<TunnelX>>, <<>>),
      Element(Chars_open, Nets(<<<<"L1">>>>), Period(T(0), NoTime),
              <<None>>, <<>>) }

\* entries active on L1 from T(0) on, with summaries around the display limit
LongElements ==
    {Element(Chars_open, Nets(<<<<"L1">>>>), Period(T(0), NoTime),
             <<Rep(c, n)>>, <<>>) :
        c \in {"a"}, n \in {100, 155, 230, 231, 255, 256}}

\* the id of the config entry
EntryId == <<"e","1">>

\* line references as the lines query returns them, and one that differs
\* from another in ":" against "_" only
LineA == <<"A",":","1">>
LineA_ == <<"A","_","1">>
LineB == <<"B",":","2">>

\* the line selections of the config flow (never empty) and of the options
\* flow
ConfiguredLists == {<<LineA>>, <<LineA, LineB>>}
Selections == {<<>>, <<LineB>>, <<LineA_>>, <<LineA, LineB>>}

WatchLists == {<<"L1">>, <<"L1", "L2">>}

ParseFeeds ==
    {<<e>> : e \in StatusElements}
        \cup SeqsUpTo(Catalogue, MaxElems)
        \cup (SeqsUpTo(LongElements, MaxElems) \ {<<>>})

\* what the upstream may serve to the polling coordinator
CoordElements ==
    { Element(Chars_open, Nets(<<<<"L1">>>>), Period(T(1), T(3)),
              <<TunnelX>>, <<>>),
      Element(Chars_open, Nets(<<<<"L1">>>>), Period(T(1), T(3)),
              <<TunnelY>>, <<>>),
      Element(Chars_open, Nets(<<<<"L1">>>>), Period(T(0), NoTime),
              <<None>>, <<>>) }

CoordFeeds == SeqsUpTo(CoordElements, 1)

\* what the upstream may serve to the first refresh of a setup
SetupFeeds ==
    {<<>>,
     <<Element(Chars_open, Nets(<<<<LineA>>>>), Period(T(0), NoTime),
               <<TunnelX>>, <<>>)>>}

\* two summaries of 51 characters that differ in the last character only
Summary51x == Rep("a", ID_SUMMARY_LEN) \o <<"x">>
Summary51y == Rep("a", ID_SUMMARY_LEN) \o <<"y">>

\* a situation of line L1 with the given summary text
Situation(summary) ==
    Element(Chars_open, Nets(<<<<"L1">>>>), Period(T(1), T(3)),
            <<summary>>, <<>>)

\* one situation as the upstream serves it from cycle to cycle, with its
\* summary text edited (or nulled)
TrackElements ==
    {Situation(summary) :
        summary \in {TunnelX, Summary51x, Summary51y, None}}

\* no situation, the one situation, or that one and a second one
TrackFeeds ==
    SeqsUpTo(TrackElements, 1)
        \cup {<<e, Situation(Summary51x)>> : e \in TrackElements}

-----------------------------------------------------------------------------
(* The operations *)

Watched == {lines[i] : i \in 1..Len(lines)}

\* the states the sensors showed belong to the snapshot and the clock of the
\* moment they were read at: they are forgotten when either changes
ClearReadings ==
    /\ sensor_value' = <<>>
    /\ line_attributes' = <<>>
    /\ summary_value' = <<>>
    /\ summary_attributes' = <<>>

\* the clock advances
Tick ==
    /\ ~fetching
    /\ now < MaxTicks * TimeStep
    /\ now' = now + TimeStep
    /\ ClearReadings
    /\ UNCHANGED setup_vars
    /\ UNCHANGED <<lines, feed, parsed_at, data, cached_data, throttle_count,
                   in_backoff, update_interval, last_success_time,
                   previous_disruptions, outcome, events, run, last_cycle,
                   last_good, success_since, prior_good, entry, fetching>>

\* the host reads the state of every line sensor
ReadSensors ==
    /\ entry.sensors
    /\ sensor_value = <<>>
    /\ sensor_value' = [line_ref \in Watched |->
                           native_value(data, line_ref, now)]
    /\ line_attributes' = [line_ref \in Watched |->
                              extra_state_attributes(data, line_ref)]
    /\ summary_value' = <<summary_native_value(data, lines)>>
    /\ summary_attributes' = <<summary_extra_state_attributes(data, lines)>>
    /\ UNCHANGED setup_vars
    /\ UNCHANGED <<now, lines, feed, parsed_at, data, cached_data, throttle_count,
                   in_backoff, update_interval, last_success_time,
                   previous_disruptions, outcome, events, run, last_cycle,
                   last_good, success_since, prior_good, entry, fetching>>

\* a direct call of _parse_response on a decoded document
CallParseResponse ==
    /\ data.isNone
    /\ parsed_at' = <<now>>
    /\ data' = Dict(ParseResponse(feed, lines, now))
    /\ ClearReadings
    /\ UNCHANGED setup_vars
    /\ UNCHANGED <<now, lines, feed, cached_data, throttle_count,
                   in_backoff, update_interval, last_success_time,
                   previous_disruptions, outcome, events, run, last_cycle,
                   last_good, success_since, prior_good, entry, fetching>>

\* a cycle starts: _async_update_data runs up to its await of
\* async_get_deviations, in the first refresh of async_setup_entry or when
\* the update interval has passed
BeginCycle ==
    /\ entry.setup \in {"pending", "loaded"}
    /\ ~fetching
    /\ CycleDue
    /\ fetching' = TRUE
    /\ ClearReadings
    /\ UNCHANGED setup_vars
    /\ UNCHANGED <<now, lines, feed, parsed_at, data, cached_data,
                   throttle_count, in_backoff, update_interval,
                   last_success_time, previous_disruptions, outcome, events,
                   run, last_cycle, last_good, success_since, prior_good,
                   entry>>

\* EnturSXDataUpdateCoordinator(hass, api): a new coordinator
ConstructCoordinator ==
    /\ parsed_at' = <<>>
    /\ data' = NoData
    /\ ClearReadings
    /\ cached_data' = NoData
    /\ throttle_count' = 0
    /\ in_backoff' = FALSE
    /\ update_interval' = UPDATE_INTERVAL
    /\ last_success_time' = <<>>
    /\ previous_disruptions' = <<>>
    /\ outcome' = "none"
    /\ events' = {}
    /\ run' = NoRun
    /\ last_cycle' = NoCycle
    /\ last_good' = NoData
    /\ success_since' = <<>>
    /\ prior_good' = NoData

\* async_setup_entry is called again after ConfigEntryNotReady: it
\* constructs a new api client from the config entry and a new coordinator
RetrySetup ==
    /\ entry.setup = "not_ready"
    /\ lines' = config_data(config_entry).lines_to_check
    /\ ConstructCoordinator
    /\ entry' = EntryPending
    /\ UNCHANGED setup_vars
    /\ UNCHANGED <<now, feed, fetching>>

\* _async_update_data when async_get_deviations returns the parsed document
CycleSucceeded(elements) ==
    LET d == ParseResponse(elements, lines, now)
        quiet == /\ last_success_time # <<>>
                 /\ now - last_success_time[1] > BACKOFF_RESET_AFTER
    IN  /\ fetching
        /\ fetching' = FALSE
        /\ feed' = elements
        /\ parsed_at' = <<now>>
        /\ in_backoff' = FALSE
        /\ update_interval' =
               interval_after_success(in_backoff, update_interval)
        /\ throttle_count' = IF quiet THEN 0 ELSE throttle_count
        /\ last_success_time' = <<now>>
        /\ cached_data' = Dict(d)
        /\ previous_disruptions' =
               baseline_after_tracking(previous_disruptions, d)
        /\ IF TrackRaises(d)
           THEN /\ outcome' = "failed"
                /\ events' = {}
                /\ last_cycle' = [kind |-> "track_error", at |-> now,
                                  before |-> BackoffState]
                /\ success_since' = <<>>
                /\ UNCHANGED <<data, last_good, prior_good>>
           ELSE /\ outcome' = "success"
                /\ data' = Dict(d)
                /\ events' = ChangeEvents(previous_disruptions,
                                          current_disruptions(d))
                /\ last_cycle' = [kind |-> "success", at |-> now,
                                  before |-> BackoffState]
                /\ last_good' = Dict(d)
                /\ success_since' = IF success_since = <<>> THEN <<now>>
                                    ELSE success_since
                /\ prior_good' = last_good
        /\ run' = [from_backoff |-> FALSE,
                   from_count |-> throttle_count',
                   intervals |-> <<>>]
        /\ entry' = EntryAfter(outcome')
        /\ ClearReadings
        /\ UNCHANGED <<now, lines>>

\* a cycle of the coordinator whose fetch succeeded
UpdateSuccess(elements) ==
    /\ CycleSucceeded(elements)
    /\ UNCHANGED setup_vars

\* _async_update_data when the fetch raises ClientResponseError with
\* status 429: _handle_throttle
UpdateThrottled ==
    /\ fetching
    /\ fetching' = FALSE
    /\ throttle_count < MaxThrottle
    /\ throttle_count' = throttle_count + 1
    /\ in_backoff' = TRUE
    /\ update_interval' = backoff_time(throttle_count')
    /\ IF serves_cache(cached_data)
       THEN data' = cached_data /\ outcome' = "cached"
       ELSE data' = data /\ outcome' = "failed"
    /\ events' = {}
    /\ run' = [run EXCEPT !.intervals = Append(@, update_interval')]
    /\ last_cycle' = [kind |-> "throttled", at |-> now,
                      before |-> BackoffState]
    /\ success_since' = <<>>
    /\ entry' = EntryAfter(outcome')
    /\ ClearReadings
    /\ UNCHANGED setup_vars
    /\ UNCHANGED <<now, lines, feed, parsed_at, cached_data,
                   last_success_time, previous_disruptions, last_good,
                   prior_good>>

\* _async_update_data when the fetch raises anything else
UpdateError ==
    /\ fetching
    /\ fetching' = FALSE
    /\ outcome' = "failed"
    /\ events' = {}
    /\ run' = [from_backoff |-> in_backoff,
               from_count |-> throttle_count,
               intervals |-> <<>>]
    /\ last_cycle' = [kind |-> "error", at |-> now,
                      before |-> BackoffState]
    /\ success_since' = <<>>
    /\ entry' = EntryAfter(outcome')
    /\ ClearReadings
    /\ UNCHANGED setup_vars
    /\ UNCHANGED <<now, lines, feed, parsed_at, data, cached_data, throttle_count,
                   in_backoff, update_interval, last_success_time,
                   previous_disruptions, last_good, prior_good>>

-----------------------------------------------------------------------------
(* The specifications *)

\* the polling coordinator and its sensors
Init ==
    /\ CoordinatorInit
    /\ entry = EntryPending
    /\ fetching = FALSE
    /\ now = 0
    /\ lines \in WatchLists
    /\ feed = <<>>
    /\ config_entry = ConfigEntry(EntryId, lines, TRUE)
    /\ PlatformInit

Next ==
    \/ Tick
    \/ ReadSensors
    \/ BeginCycle
    \/ RetrySetup
    \/ \E elements \in CoordFeeds : UpdateSuccess(elements)
    \/ UpdateThrottled
    \/ UpdateError

Spec == Init /\ [][Next]_vars

\* _parse_response called on a document at some time, and the sensors read
\* over the result at that time or later
ParseInit ==
    /\ CoordinatorInit
    /\ entry = EntryLoaded
    /\ fetching = FALSE
    /\ now \in Clock
    /\ lines \in WatchLists
    /\ feed \in ParseFeeds
    /\ config_entry = ConfigEntry(EntryId, lines, TRUE)
    /\ PlatformInit

ParseNext ==
    \/ CallParseResponse
    \/ (~data.isNone /\ now < MaxParseTicks * TimeStep /\ Tick)
    \/ (~data.isNone /\ ReadSensors)

ParseSpec == ParseInit /\ [][ParseNext]_vars

\* one situation, served unchanged from parse to parse
ReparseFeeds == {<<e>> : e \in StatusElements}

\* _parse_response called again, at a later time, on the same document
Reparse ==
    /\ ~data.isNone
    /\ parsed_at[1] < now
    /\ parsed_at' = <<now>>
    /\ data' = Dict(ParseResponse(feed, lines, now))
    /\ prior_good' = data
    /\ last_good' = data'
    /\ ClearReadings
    /\ UNCHANGED setup_vars
    /\ UNCHANGED <<now, lines, feed, cached_data, throttle_count,
                   in_backoff, update_interval, last_success_time,
                   previous_disruptions, outcome, events, run, last_cycle,
                   success_since, entry, fetching>>

ReparseInit ==
    /\ CoordinatorInit
    /\ entry = EntryLoaded
    /\ fetching = FALSE
    /\ now \in Clock
    /\ lines \in WatchLists
    /\ feed \in ReparseFeeds
    /\ config_entry = ConfigEntry(EntryId, lines, TRUE)
    /\ PlatformInit

ReparseNext ==
    \/ CallParseResponse
    \/ (~data.isNone /\ now < MaxParseTicks * TimeStep /\ Tick)
    \/ Reparse

\* _parse_response called at successive times on one situation
ReparseSpec == ReparseInit /\ [][ReparseNext]_vars

\* sensor.async_setup_entry: the registry entities of the entry that are not
\* expected are removed, then the sensors are created and added
PlatformSetup ==
    /\ removed' = unexpected(entity_registry, config_entry)
    /\ entities' = sensor_entities(config_entry)
    /\ entity_registry' =
           (entity_registry \ removed')
               \cup entity_unique_ids(config_entry, entities')
    /\ UNCHANGED config_entry

\* the first refresh of async_setup_entry has succeeded: the coordinator is
\* stored, the sensor platform is set up and the update listener registered
FirstRefresh(elements) ==
    /\ entry.setup = "pending"
    /\ CycleSucceeded(elements)
    /\ IF entry'.sensors THEN PlatformSetup ELSE UNCHANGED setup_vars

\* the options flow ends with a new line selection: entry.options is
\* replaced; the update listener, registered while the entry is loaded,
\* reloads the entry: the platform is unloaded and async_setup_entry builds
\* a new api client and a new coordinator
OptionsUpdated(selection) ==
    /\ config_entry.options # <<selection>>
    /\ config_entry' = [config_entry EXCEPT !.options = <<selection>>]
    /\ IF entry.setup = "loaded"
       THEN /\ entities' = NoEntities
            /\ lines' = config_data(config_entry').lines_to_check
            /\ ConstructCoordinator
            /\ entry' = EntryPending
            /\ fetching' = FALSE
            /\ UNCHANGED <<now, feed, entity_registry, removed>>
       ELSE UNCHANGED <<now, lines, feed, parsed_at, data, sensor_value,
                        line_attributes, summary_value, summary_attributes,
                        cached_data, throttle_count, in_backoff,
                        update_interval, last_success_time,
                        previous_disruptions, outcome, events, run,
                        last_cycle, last_good, success_since, prior_good,
                        entry, fetching, entity_registry, entities, removed>>

SetupInit ==
    /\ CoordinatorInit
    /\ entry = EntryPending
    /\ fetching = FALSE
    /\ now = 0
    /\ feed = <<>>
    /\ config_entry \in {ConfigEntry(EntryId, l, s) :
                             l \in ConfiguredLists, s \in BOOLEAN}
    /\ lines = config_data(config_entry).lines_to_check
    /\ PlatformInit

SetupNext ==
    \/ BeginCycle
    \/ \E elements \in SetupFeeds : FirstRefresh(elements)
    \/ UpdateError
    \/ RetrySetup
    \/ \E selection \in Selections : OptionsUpdated(selection)

\* the config entry is set up, its options are changed, it is reloaded
SetupSpec == SetupInit /\ [][SetupNext]_vars

\* successive successful fetches, each handed to _track_disruption_changes
TrackNext ==
    \/ Tick
    \/ BeginCycle
    \/ RetrySetup
    \/ \E elements \in TrackFeeds : UpdateSuccess(elements)

TrackSpec == Init /\ [][TrackNext]_vars

-----------------------------------------------------------------------------
(* The properties: shared vocabulary *)

\* the list of line L in the result of the last _parse_response call
ListOf(L) == data.dict[L]

\* the parse of line L ended in the except branch
LineFailed(L) ==
    \E i \in 1..Len(ListOf(L)) : ListOf(L)[i].progress = Chars_error

\* element e names line L among its affected lines
References(e, L) ==
    /\ e.Networks # <<>>
    /\ \E n \in 1..Len(e.Networks[1]) :
           \E j \in 1..Len(e.Networks[1][n]) : e.Networks[1][n][j] = L

StartOf(e) == e.ValidityPeriod[1].StartTime
EndOf(e) == e.ValidityPeriod[1].EndTime
IsInstant(t) == t.kind \in {"aware", "naive"}

\* element e has a validity start that is a time
HasStart(e) == e.ValidityPeriod # <<>> /\ IsInstant(StartOf(e))

\* "closed" in any letter case
IsClosedAnyCase(progress) ==
    /\ Len(progress) = 6
    /\ progress[1] \in {"c", "C"}
    /\ progress[2] \in {"l", "L"}
    /\ progress[3] \in {"o", "O"}
    /\ progress[4] \in {"s", "S"}
    /\ progress[5] \in {"e", "E"}
    /\ progress[6] \in {"d", "D"}

\* the positions in the list of L of the entries made from element e
ItemsFrom(e, L) ==
    {i \in 1..Len(ListOf(L)) :
        /\ ListOf(L)[i].valid_from = StartOf(e)
        /\ ListOf(L)[i].valid_to = EndOf(e)
        /\ ListOf(L)[i].summary = FirstValue(e.Summary)
        /\ IsClosedAnyCase(ListOf(L)[i].progress)
               = IsClosedAnyCase(e.Progress)}

\* every entry made from e for L exists and has status st
Classified(e, L, st) ==
    /\ ItemsFrom(e, L) # {}
    /\ \A i \in ItemsFrom(e, L) : ListOf(L)[i].status = st

\* element k of the parsed feed is a raw entry of watched line L whose
\* status was derived
Derived(k, L) ==
    /\ feed[k].Progress # None
    /\ References(feed[k], L)
    /\ HasStart(feed[k])
    /\ ~LineFailed(L)

-----------------------------------------------------------------------------
\* C1: every raw entry whose validity start is strictly later than the parse
\* time gets status PLANNED, whatever its Progress (also "closed" in any
\* letter case) and whatever its validity end.
C1_FutureIsPlanned ==
    ~data.isNone =>
        \A L \in Watched : \A k \in 1..Len(feed) :
            (Derived(k, L) /\ Timestamp(StartOf(feed[k])) > parsed_at[1])
                => Classified(feed[k], L, STATUS_PLANNED)

\* a future entry tagged CLOSED whose end lies before the parse time has
\* been classified PLANNED
C1_Witness ==
    /\ ~data.isNone
    /\ \E L \in Watched : \E k \in 1..Len(feed) :
           /\ Derived(k, L)
           /\ feed[k].Progress = Chars_CLOSED
           /\ Timestamp(StartOf(feed[k])) > parsed_at[1]
           /\ IsInstant(EndOf(feed[k]))
           /\ Timestamp(EndOf(feed[k])) < parsed_at[1]
           /\ Classified(feed[k], L, STATUS_PLANNED)

\* C2: a raw entry with start <= now and (no end, or now <= end) is EXPIRED
\* when its Progress is "closed" in any letter case and ACTIVE (open) for
\* every other Progress; now = start and now = end are inside the window.
C2_InsideWindow ==
    ~data.isNone =>
        \A L \in Watched : \A k \in 1..Len(feed) :
            ( /\ Derived(k, L)
              /\ Timestamp(StartOf(feed[k])) <= parsed_at[1]
              /\ \/ Falsy(EndOf(feed[k]))
                 \/ /\ IsInstant(EndOf(feed[k]))
                    /\ parsed_at[1] <= Timestamp(EndOf(feed[k])) )
                => Classified(feed[k], L,
                              IF IsClosedAnyCase(feed[k].Progress)
                              THEN STATUS_EXPIRED ELSE STATUS_OPEN)

\* one parse classified an entry ACTIVE at the instant of its start and an
\* entry tagged "Closed" EXPIRED at the instant of its end
C2_Witness ==
    /\ ~data.isNone
    /\ \E L \in Watched : \E k \in 1..Len(feed) :
           /\ Derived(k, L)
           /\ Timestamp(StartOf(feed[k])) = parsed_at[1]
           /\ ~IsClosedAnyCase(feed[k].Progress)
           /\ Classified(feed[k], L, STATUS_OPEN)
    /\ \E L \in Watched : \E k \in 1..Len(feed) :
           /\ Derived(k, L)
           /\ Timestamp(StartOf(feed[k])) < parsed_at[1]
           /\ IsInstant(EndOf(feed[k]))
           /\ Timestamp(EndOf(feed[k])) = parsed_at[1]
           /\ feed[k].Progress = Chars_Closed
           /\ Classified(feed[k], L, STATUS_EXPIRED)

\* C3 as stated: every raw entry whose validity end lies strictly before the
\* parse time gets status EXPIRED.
C3_AfterEndIsExpired ==
    ~data.isNone =>
        \A L \in Watched : \A k \in 1..Len(feed) :
            ( /\ Derived(k, L)
              /\ IsInstant(EndOf(feed[k]))
              /\ parsed_at[1] > Timestamp(EndOf(feed[k])) )
                => Classified(feed[k], L, STATUS_EXPIRED)

\* C3 amended: every raw entry whose validity end lies strictly before the
\* parse time and whose validity start is not later than the parse time gets
\* status EXPIRED (an entry whose start is still ahead is PLANNED).
C3_StartedAfterEndIsExpired ==
    ~data.isNone =>
        \A L \in Watched : \A k \in 1..Len(feed) :
            ( /\ Derived(k, L)
              /\ IsInstant(EndOf(feed[k]))
              /\ parsed_at[1] > Timestamp(EndOf(feed[k]))
              /\ parsed_at[1] >= Timestamp(StartOf(feed[k])) )
                => Classified(feed[k], L, STATUS_EXPIRED)

\* an entry tagged "open" whose window has passed has been classified
\* EXPIRED
C3_Witness ==
    /\ ~data.isNone
    /\ \E L \in Watched : \E k \in 1..Len(feed) :
           /\ Derived(k, L)
           /\ feed[k].Progress = Chars_open
           /\ IsInstant(EndOf(feed[k]))
           /\ Timestamp(StartOf(feed[k])) < Timestamp(EndOf(feed[k]))
           /\ parsed_at[1] > Timestamp(EndOf(feed[k]))
           /\ Classified(feed[k], L, STATUS_EXPIRED)

\* the rank of a status in the order ACTIVE, PLANNED, EXPIRED
Rank(st) == IF st = "open" THEN 1 ELSE IF st = "planned" THEN 2 ELSE 3

\* C4: every list of the parse result has its ACTIVE entries before its
\* PLANNED entries before its EXPIRED entries, each group ordered by
\* non-increasing validity start; so a list with an ACTIVE entry has an
\* ACTIVE head.
C4_Ordered ==
    ~data.isNone =>
        \A L \in DOMAIN data.dict :
            /\ \A i, j \in 1..Len(ListOf(L)) :
                   i < j =>
                       /\ Rank(ListOf(L)[i].status)
                              <= Rank(ListOf(L)[j].status)
                       /\ ListOf(L)[i].status = ListOf(L)[j].status
                              => Timestamp(ListOf(L)[i].valid_from)
                                     >= Timestamp(ListOf(L)[j].valid_from)
            /\ (\E i \in 1..Len(ListOf(L)) : ListOf(L)[i].status = "open")
                   => ListOf(L)[1].status = "open"

\* a feed that lists a future entry tagged "closed" first produced a list
\* with all three statuses and an ACTIVE head
C4_Witness ==
    /\ ~data.isNone
    /\ Len(feed) >= 1
    /\ IsClosedAnyCase(feed[1].Progress)
    /\ HasStart(feed[1])
    /\ Timestamp(StartOf(feed[1])) > parsed_at[1]
    /\ \E L \in Watched :
           /\ References(feed[1], L)
           /\ ListOf(L)[1].status = "open"
           /\ {ListOf(L)[i].status : i \in 1..Len(ListOf(L))}
                  = {"open", "planned", "expired"}

\* the default entry that stands for "no situation" (or for a failed parse)
IsSynthetic(item) ==
    /\ item.summary = STATE_NORMAL
    /\ item.status = "open"
    /\ item.valid_to = NoTime
    /\ item.progress \in {Chars_normal, Chars_error}

\* the raw entries of the parsed feed that reference line L and have an
\* affected-network section and a validity start
Matching(L) ==
    {k \in 1..Len(feed) : References(feed[k], L) /\ HasStart(feed[k])}

\* those of them that are well formed: Progress is a string and no time
\* string is unparsable
WellFormedMatching(L) ==
    {k \in Matching(L) :
        feed[k].Progress # None /\ EndOf(feed[k]).kind # "bad"}

\* C5: the parse result has an entry for every watched line and no list is
\* empty; a line with no matching situation gets exactly one synthetic
\* "Normal service" entry with status ACTIVE, and a line with a (well-formed)
\* matching situation gets no synthetic entry.
C5_SyntheticIffNoMatch ==
    ~data.isNone =>
        /\ DOMAIN data.dict = Watched
        /\ \A L \in Watched :
               /\ ListOf(L) # <<>>
               /\ Matching(L) = {}
                      => Len(ListOf(L)) = 1 /\ IsSynthetic(ListOf(L)[1])
               /\ WellFormedMatching(L) # {}
                      => \A i \in 1..Len(ListOf(L)) :
                             ~IsSynthetic(ListOf(L)[i])

\* C6: the non-synthetic entries of the list of a watched line L are exactly
\* the raw entries that match L: every entry of the list comes from a raw
\* entry that references L, and every (well-formed) raw entry that
\* references L, also one that references other watched lines too, is in
\* the list.
C6_ExactlyTheMatching ==
    ~data.isNone =>
        \A L \in Watched :
            /\ \A i \in 1..Len(ListOf(L)) :
                   ~IsSynthetic(ListOf(L)[i])
                       => \E k \in Matching(L) : i \in ItemsFrom(feed[k], L)
            /\ \A k \in WellFormedMatching(L) : ItemsFrom(feed[k], L) # {}

-----------------------------------------------------------------------------
(* The sensor state *)

\* the sensors have just been read over a snapshot
SensorsRead == sensor_value # <<>> /\ ~data.isNone

\* the entry is ACTIVE in the snapshot and the clock is inside its window
ActiveNow(item) ==
    /\ item.status = "open"
    /\ Timestamp(item.valid_from) <= now
    /\ item.valid_to = NoTime \/ now <= Timestamp(item.valid_to)

\* the summaries of the currently active entries of line L, in list order
ActiveSummaries(L) ==
    LET act == SelectSeq(ListOf(L), ActiveNow)
    IN  [i \in 1..Len(act) |-> act[i].summary]

RECURSIVE PipeJoined(_)
\* the strings written one after the other with " | " between them
PipeJoined(strs) ==
    IF Len(strs) = 1 THEN strs[1]
    ELSE PipeJoined(SubSeq(strs, 1, Len(strs) - 1))
             \o <<" ", "|", " ">> \o strs[Len(strs)]

\* "<n> active disruptions: ", the first summary cut to fit, and "..."
CountForm(strs) ==
    LET prefix == Decimal(Len(strs)) \o Chars_active_disruptions
    IN  prefix \o SubSeq(strs[1], 1, Min(Len(strs[1]), 252 - Len(prefix)))
            \o <<".", ".", ".">>

C9_WithinDisplayLimit ==
    SensorsRead =>
        \A L \in DOMAIN sensor_value :
            sensor_value[L] \notin {None, TypeErrorRaised}
                => Len(sensor_value[L]) <= 255

\* the count form filled the limit exactly for active entries whose joined
\* summaries are longer than 255 characters, one of them longer on its own
C9_Witness ==
    /\ SensorsRead
    /\ \E L \in DOMAIN sensor_value :
           /\ Len(ActiveSummaries(L)) >= 2
           /\ \E i \in 1..Len(ActiveSummaries(L)) :
                  Len(ActiveSummaries(L)[i]) > 255
           /\ Len(sensor_value[L]) = 255
           /\ SubSeq(sensor_value[L], 253, 255) = <<".", ".", ".">>

-----------------------------------------------------------------------------
(* The polling controller *)

\* [initial, initial * mult, min(initial * mult^2, max)] with mult = 5/2
ThreeIntervals ==
    <<BACKOFF_INITIAL,
      (BACKOFF_INITIAL * 5) \div 2,
      Min((BACKOFF_INITIAL * 25) \div 4, BACKOFF_MAX)>>

\* C10 as stated: three consecutive rate-limited cycles that start in the
\* NORMAL state (not in backoff) set update_interval to 120, 300, 600.
C10_ThreeThrottlesFromNormal ==
    (~run.from_backoff /\ Len(run.intervals) >= 3)
        => /\ SubSeq(run.intervals, 1, 3) = ThreeIntervals
           /\ ThreeIntervals = <<120, 300, 600>>

\* C10 amended: three consecutive rate-limited cycles that start in the
\* NORMAL state with the throttle counter at 0 set update_interval to
\* 120, 300, 600.
C10_ThreeThrottlesFromZero ==
    (~run.from_backoff /\ run.from_count = 0)
        => /\ \A i \in 1..Min(Len(run.intervals), 3) :
                  run.intervals[i] = ThreeIntervals[i]
           /\ ThreeIntervals = <<120, 300, 600>>
           /\ \A i \in 1..Len(run.intervals) :
                  run.intervals[i] <= BACKOFF_MAX

\* three rate-limited cycles in a row have run from NORMAL with the counter
\* at 0, after a successful cycle had filled the cache
C10_Witness ==
    /\ ~run.from_backoff
    /\ run.from_count = 0
    /\ Len(run.intervals) = 3
    /\ update_interval = 600
    /\ throttle_count = 3
    /\ ~cached_data.isNone

-----------------------------------------------------------------------------
(* The poll cycle: shared vocabulary *)

\* the last cycle was answered with HTTP 429
Throttled == last_cycle.kind = "throttled"

\* the last cycle raised UpdateFailed
RaisedUpdateFailed == outcome = "failed"

\* the last cycle returned snapshot s to its caller
Returned(s) == outcome \in {"success", "cached"} /\ data = s

\* min(120 * 2.5^(n-1), 600) for the n-th rate-limit signal in a row
NthBackoff(n) == IF n = 1 THEN 120 ELSE IF n = 2 THEN 300 ELSE 600

\* C11: a rate-limited cycle that runs when a cached snapshot exists returns
\* the cached snapshot, which is the snapshot of the most recent successful
\* cycle; afterwards the throttle counter is one higher, the in-backoff flag
\* is set and update_interval is the computed backoff interval.
C11_ThrottledServesLastGood ==
    (Throttled /\ ~cached_data.isNone) =>
        /\ Returned(cached_data)
        /\ cached_data = last_good
        /\ throttle_count = last_cycle.before.throttle_count + 1
        /\ in_backoff
        /\ update_interval = NthBackoff(throttle_count)

\* C12: a rate-limited cycle that runs when no cycle has ever succeeded
\* raises UpdateFailed and returns no snapshot.
C12_ThrottledBeforeAnySuccessFails ==
    (Throttled /\ last_good.isNone) =>
        /\ RaisedUpdateFailed
        /\ data.isNone

\* C13: once cycles have succeeded without interruption for longer than
\* BACKOFF_RESET_AFTER, the throttle counter is 0.
C13_QuietPeriodResetsCounter ==
    ( /\ last_cycle.kind = "success"
      /\ success_since # <<>>
      /\ last_cycle.at - success_since[1] > BACKOFF_RESET_AFTER )
        => throttle_count = 0

\* C14: the throttle counter goes back to 0 only at a successful cycle that
\* comes after a full quiet period of sustained success, never at the first
\* successful cycle that follows a rate-limited cycle (a new coordinator
\* starts at 0).
C14_ResetOnlyAfterQuietPeriod ==
    [][ (throttle_count > 0 /\ throttle_count' = 0
            /\ last_cycle'.kind # "none")
           => /\ last_cycle'.kind = "success"
              /\ last_cycle.kind = "success"
              /\ success_since # <<>>
              /\ now - success_since[1] > BACKOFF_RESET_AFTER ]_vars

\* C15: a successful cycle that runs while the coordinator is in backoff
\* clears the in-backoff flag and sets update_interval to UPDATE_INTERVAL
\* (60 s), whatever the throttle counter and the backoff interval were.
C15_RecoveryResetsInterval ==
    (last_cycle.kind = "success" /\ last_cycle.before.in_backoff)
        => /\ ~in_backoff
           /\ update_interval = 60
           /\ UPDATE_INTERVAL = 60

\* a successful cycle has run in backoff with the counter at 3 and the
\* interval at the cap
C15_Witness ==
    /\ last_cycle.kind = "success"
    /\ last_cycle.before.in_backoff
    /\ last_cycle.before.throttle_count = 3
    /\ last_cycle.before.update_interval = 600
    /\ ~in_backoff
    /\ update_interval = 60

\* C16: a cycle that fails for a reason other than HTTP 429 raises
\* UpdateFailed and leaves the throttle counter, the in-backoff flag and
\* update_interval as they were before the cycle.
C16_FailureKeepsBackoffState ==
    (RaisedUpdateFailed /\ ~Throttled) =>
        /\ throttle_count = last_cycle.before.throttle_count
        /\ in_backoff = last_cycle.before.in_backoff
        /\ update_interval = last_cycle.before.update_interval

\* C17: the cached snapshot is replaced only by a cycle that completes
\* successfully and returns the fetched snapshot; a cycle that raises
\* UpdateFailed and a rate-limited cycle leave it as it was (a new
\* coordinator starts with an empty cache).
C17_CacheReplacedOnlyOnSuccess ==
    [][ (cached_data' # cached_data /\ last_cycle'.kind # "none")
           => /\ outcome' = "success"
              /\ data' = cached_data' ]_vars

\* C20: whenever the fetch and the parse of a cycle succeed, the cycle
\* returns the new snapshot, whatever its content; the change detector
\* never makes the cycle fail.
C20_DetectorNeverFailsCycle ==
    last_cycle.kind \in {"success", "track_error"}
        => /\ Returned(Dict(ParseResponse(feed, lines, last_cycle.at)))
           /\ outcome = "success"

-----------------------------------------------------------------------------
(* The change detector *)

\* the records logged for line L in the given direction by the last cycle
EventsOn(L, direction) ==
    {e \in events : e.line_ref = L /\ e.direction = direction}

\* the last cycle was the first successful cycle of the coordinator
FirstSuccess == outcome = "success" /\ prior_good.isNone

\* the last cycle was successful and so was an earlier one: the detector
\* compared the snapshot prior_good with the snapshot last_good
Compared == outcome = "success" /\ ~prior_good.isNone

\* the positions of the list of L whose entry differs between the snapshots
ChangedAt(L) ==
    {i \in 1..Len(last_good.dict[L]) :
        prior_good.dict[L][i] # last_good.dict[L][i]}

\* between the two snapshots, exactly one entry of the list of L changed,
\* and only in its summary text
OneSummaryChanged(L) ==
    /\ Len(prior_good.dict[L]) = Len(last_good.dict[L])
    /\ Cardinality(ChangedAt(L)) = 1
    /\ \A i \in ChangedAt(L) :
           [prior_good.dict[L][i] EXCEPT
               !.summary = last_good.dict[L][i].summary]
                   = last_good.dict[L][i]

\* C18: the first successful cycle of a coordinator emits no NEW and no
\* REMOVED event for any line.
C18_FirstCycleSilent == FirstSuccess => events = {}

KeyOf(item) ==
    <<SubSeq(item.summary, 1, IF Len(item.summary) < 50
                              THEN Len(item.summary) ELSE 50),
      item.status, item.valid_from>>

\* the keys of the entries of a list, the entry at position i left out
OtherKeys(list, i) == {KeyOf(list[j]) : j \in (1..Len(list)) \ {i}}

\* the fetched snapshot of the last cycle holds an entry with a null summary
NullSummaryFetched ==
    /\ last_cycle.kind \in {"success", "track_error"}
    /\ \E L \in DOMAIN cached_data.dict :
           \E i \in 1..Len(cached_data.dict[L]) :
               cached_data.dict[L][i].summary = None

-----------------------------------------------------------------------------
(* Malformed and incomplete entries *)

\* the loop body raises on element k of the parsed feed
RaisesAt(k) == ElementOutcome(feed[k], parsed_at[1]) = "raise"

\* the loop body of element k reaches the line matching
EmitsAt(k) == ElementOutcome(feed[k], parsed_at[1]) = "emit"

\* the status the validity window and the Progress of element e call for
ExpectedStatus(e) ==
    IF parsed_at[1] < Timestamp(StartOf(e)) THEN "planned"
    ELSE IF IsInstant(EndOf(e)) /\ parsed_at[1] > Timestamp(EndOf(e))
         THEN "expired"
    ELSE IF IsClosedAnyCase(e.Progress) THEN "expired"
    ELSE "open"

\* C21: an entry of the feed that raises while it is processed is only
\* skipped: every other entry of the same response that references a watched
\* line still appears in the list of that line, with the status its window
\* and Progress call for.
C21_RaisingEntryOnlySkipped ==
    ~data.isNone =>
        \A L \in Watched : \A k \in 1..Len(feed) :
            ( /\ \E r \in 1..Len(feed) : RaisesAt(r)
              /\ EmitsAt(k)
              /\ References(feed[k], L) )
                => Classified(feed[k], L, ExpectedStatus(feed[k]))

\* element e lacks the affected-network section, the validity period or the
\* validity start
Incomplete(e) ==
    \/ e.Networks = <<>>
    \/ e.ValidityPeriod = <<>>
    \/ Falsy(StartOf(e))

\* the sequence s without its k-th element
Without(s, k) == SubSeq(s, 1, k - 1) \o SubSeq(s, k + 1, Len(s))

\* C22: an entry that lacks its validity period, its validity start or its
\* affected-network section contributes nothing and is no error: the parse
\* result is the one the response without that entry would give.
C22_IncompleteEntryAsIfAbsent ==
    ~data.isNone =>
        \A k \in 1..Len(feed) :
            Incomplete(feed[k])
                => data.dict = ParseResponse(Without(feed, k), lines,
                                             parsed_at[1])

\* the same, for the incomplete entries whose Progress is a string
C22_IncompleteWithProgressAsIfAbsent ==
    ~data.isNone =>
        \A k \in 1..Len(feed) :
            (Incomplete(feed[k]) /\ feed[k].Progress # None)
                => data.dict = ParseResponse(Without(feed, k), lines,
                                             parsed_at[1])

-----------------------------------------------------------------------------
(* A validity window that ends before it starts *)

\* the validity end of element e is an instant before its validity start
EndsBeforeStart(e) ==
    /\ IsInstant(EndOf(e))
    /\ Timestamp(EndOf(e)) < Timestamp(StartOf(e))

\* C29: a situation whose validity end lies before its validity start is
\* PLANNED while the parse time is before the start and EXPIRED from the
\* start onward; it is never ACTIVE, whatever its Progress.
C29_EndBeforeStartNeverActive ==
    ~data.isNone =>
        \A L \in Watched : \A k \in 1..Len(feed) :
            (Derived(k, L) /\ EndsBeforeStart(feed[k]))
                => Classified(feed[k], L,
                              IF parsed_at[1] < Timestamp(StartOf(feed[k]))
                              THEN STATUS_PLANNED ELSE STATUS_EXPIRED)

\* an entry tagged "open" whose end lies before its start has been parsed at
\* the instant of its start and classified EXPIRED
C29_Witness ==
    /\ ~data.isNone
    /\ \E L \in Watched : \E k \in 1..Len(feed) :
           /\ Derived(k, L)
           /\ EndsBeforeStart(feed[k])
           /\ feed[k].Progress = Chars_open
           /\ parsed_at[1] = Timestamp(StartOf(feed[k]))
           /\ Classified(feed[k], L, STATUS_EXPIRED)

-----------------------------------------------------------------------------
(* The summary sensor and the attributes *)

\* every sensor has just been read over a snapshot
AllRead == summary_value # <<>> /\ ~data.isNone

\* the list of line L has an ACTIVE entry that stands for a situation
HasActiveDisruption(L) ==
    \E i \in 1..Len(ListOf(L)) :
        ListOf(L)[i].status = "open" /\ ~IsSynthetic(ListOf(L)[i])

\* the state that tells n lines with an active disruption
CountText(n) ==
    IF n = 0 THEN STATE_NORMAL
    ELSE IF n = 1 THEN <<"1">> \o Take(Chars_n_active_disruptions, 18)
    ELSE Decimal(n) \o Chars_n_active_disruptions

\* C23: the state of the summary sensor tells the number of watched lines
\* that have an ACTIVE disruption, and is "Normal service" when there is
\* none, in particular when every watched line carries only the synthetic
\* normal-service entry; the number equals the active_disruptions attribute.
C23_SummaryCountsActiveLines ==
    AllRead =>
        LET n == Cardinality({L \in Watched : HasActiveDisruption(L)})
        IN  /\ summary_value[1] = CountText(n)
            /\ summary_attributes[1].active_disruptions = n

\* line L has an entry of the snapshot with one of the statuses
HasEntryWith(L, statuses) ==
    \E i \in 1..Len(ListOf(L)) : ListOf(L)[i].status \in statuses

\* line L carries only the synthetic normal-service entry
OnlySynthetic(L) == Len(ListOf(L)) = 1 /\ IsSynthetic(ListOf(L)[1])

\* line L is among the lines the attributes list as normal
ListedNormal(L) ==
    \E j \in 1..Len(summary_attributes[1].normal_line_refs) :
        summary_attributes[1].normal_line_refs[j] = L

\* the roll-up of line L follows from all entries of its list
RolledUpFromAllEntries(L) ==
    LET a == summary_attributes[1]
        anyActive == /\ ~OnlySynthetic(L)
                     /\ HasEntryWith(L, {"open"})
        anyPlanned == HasEntryWith(L, {"planned"})
    IN  /\ L \in a.active_line_refs <=> anyActive
        /\ L \in a.planned_line_refs <=> anyPlanned
        /\ ListedNormal(L) <=> (~anyActive /\ ~anyPlanned)

\* the three counts are the sizes of the three groups
CountsAreGroupSizes ==
    LET a == summary_attributes[1]
    IN  /\ a.total_lines = Len(lines)
        /\ a.active_disruptions = Cardinality(a.active_line_refs)
        /\ a.planned_disruptions = Cardinality(a.planned_line_refs)
        /\ a.normal_lines = Len(a.normal_line_refs)

\* C24: the attributes of the summary sensor classify every watched line
\* from ALL entries of its list: counted active iff it has at least one
\* non-expired entry with status open, counted planned iff it has at least
\* one entry with status planned, counted normal iff it has neither (or
\* carries the synthetic normal-service entry); a line with both is counted
\* in both, and every line is counted at least once.
C24_RollUpFromAllEntries ==
    AllRead =>
        /\ CountsAreGroupSizes
        /\ \A L \in Watched : RolledUpFromAllEntries(L)

\* the same, for the lines whose head entry carries a summary text of its
\* own or is the synthetic entry
C24_RollUpWhenHeadHasSummary ==
    AllRead =>
        /\ CountsAreGroupSizes
        /\ \A L \in Watched :
               ( \/ ListOf(L)[1].summary # STATE_NORMAL
                 \/ OnlySynthetic(L) ) => RolledUpFromAllEntries(L)

\* the attributes of the sensor of line L carry per-status counts
HasCounts(L) == "deviations_by_status" \in DOMAIN line_attributes[L]

RECURSIVE SumOf(_)
\* the sum of the values of a function with a finite domain
SumOf(f) ==
    IF DOMAIN f = {} THEN 0
    ELSE LET x == CHOOSE y \in DOMAIN f : TRUE
         IN  f[x] + SumOf([z \in DOMAIN f \ {x} |-> f[z]])

\* the counts of line L are taken over its full list
CountsOverFullList(L) ==
    LET counts == line_attributes[L].deviations_by_status
    IN  /\ \A st \in DOMAIN counts :
               counts[st] = Cardinality({i \in 1..Len(ListOf(L)) :
                                            ListOf(L)[i].status = st})
        /\ \A i \in 1..Len(ListOf(L)) :
               ListOf(L)[i].status \in DOMAIN counts
        /\ SumOf(counts) = Len(ListOf(L))
        /\ line_attributes[L].total_deviations = Len(ListOf(L))

-----------------------------------------------------------------------------
(* Repeated rate limiting *)

\* C26: consecutive rate-limited cycles raise the throttle counter by one
\* each; the update_interval values they set never decrease and never exceed
\* BACKOFF_MAX, and once BACKOFF_MAX is reached every further rate-limited
\* cycle sets BACKOFF_MAX again.
C26_BackoffMonotoneToCap ==
    /\ Len(run.intervals) >= 1
           => throttle_count = run.from_count + Len(run.intervals)
    /\ \A i \in 1..Len(run.intervals) :
           /\ run.intervals[i] <= BACKOFF_MAX
           /\ i > 1 => run.intervals[i - 1] <= run.intervals[i]
           /\ (i > 1 /\ run.intervals[i - 1] = BACKOFF_MAX)
                  => run.intervals[i] = BACKOFF_MAX

\* four rate-limited cycles in a row have set 120, 300, 600 and 600 again
C26_Witness ==
    /\ run.intervals = <<120, 300, 600, 600>>
    /\ throttle_count = run.from_count + 4
    /\ update_interval = BACKOFF_MAX

-----------------------------------------------------------------------------
(* Snapshots as the readers see them *)

\* snapshot s has a non-empty list for every line of the watch-list
Complete(s) ==
    s.isNone \/ ( /\ DOMAIN s.dict = Watched
                  /\ \A L \in Watched : s.dict[L] # <<>> )

\* the cache is the whole result of the most recent fetch that was parsed
CacheIsOneFetch ==
    ~cached_data.isNone
        => cached_data.dict = [L \in Watched |->
                                 LineItems(feed, L, parsed_at[1])]

\* a step leaves coordinator.data alone or replaces it as a whole, by the
\* snapshot the cache holds after the step (a new coordinator starts with
\* none)
ReplacedWhole ==
    /\ data' \in {data, cached_data', NoData}
    /\ fetching' => (data' = data /\ cached_data' = cached_data)

\* C27: what the sensors read (coordinator.data) and what the throttle
\* handler reads (the snapshot cache) is at every moment, also while a cycle
\* is awaiting its response, a complete snapshot for the whole watch-list:
\* the cache is the whole result of one fetch, and coordinator.data is only
\* ever replaced as a whole by such a result, never while the response is
\* awaited; no mapping mixes two fetches or lacks a line.
C27_NoTornSnapshot ==
    /\ [](Complete(data) /\ Complete(cached_data) /\ CacheIsOneFetch)
    /\ [][ReplacedWhole]_vars

\* the sensors of a watch-list of two lines have been read while a cycle
\* was awaiting its response, after two different snapshots had been
\* published: they read the newer one, whole
C27_Witness ==
    /\ fetching
    /\ AllRead
    /\ Len(lines) = 2
    /\ ~prior_good.isNone
    /\ prior_good # last_good
    /\ data = last_good
    /\ DOMAIN data.dict = {"L1", "L2"}

-----------------------------------------------------------------------------
(* The first cycle *)

\* the only cycle the coordinator has run so far has failed
FirstCycleFailed ==
    /\ last_cycle.kind # "none"
    /\ outcome = "failed"
    /\ last_good.isNone

\* C30: when the first refresh of async_setup_entry does not succeed, the
\* setup ends with ConfigEntryNotReady, the coordinator is not stored in
\* hass.data and the sensor platform is not set up; no sensor is ever read
\* in a state in which no cycle has succeeded.
C30_FirstFailureVisible ==
    /\ FirstCycleFailed => entry.setup = "not_ready"
    /\ entry.setup = "not_ready" => (~entry.stored /\ ~entry.sensors)
    /\ (entry.stored \/ entry.sensors)
           => (~last_good.isNone /\ ~data.isNone)
    /\ sensor_value # <<>> => (~last_good.isNone /\ ~data.isNone)

\* the first refresh met a failure other than a rate limit and the setup
\* ended with ConfigEntryNotReady
C30_Witness ==
    /\ FirstCycleFailed
    /\ last_cycle.kind = "error"
    /\ entry = EntryNotReady
    /\ ~fetching

\* the first cycle of a coordinator was rate-limited: it raised UpdateFailed
\* and returned no snapshot
C12_Witness ==
    /\ Throttled
    /\ last_good.isNone
    /\ cached_data.isNone
    /\ RaisedUpdateFailed
    /\ data.isNone

-----------------------------------------------------------------------------
(* The backoff state as a whole *)

\* min(BACKOFF_INITIAL * (5/2)^(n - 1), BACKOFF_MAX), as a rational
\* comparison
CappedBackoff(n) ==
    IF BACKOFF_INITIAL * Power(5, n - 1) >= BACKOFF_MAX * Power(2, n - 1)
    THEN BACKOFF_MAX
    ELSE (BACKOFF_INITIAL * Power(5, n - 1)) \div Power(2, n - 1)

\* C33: after any sequence of successful, rate-limited and otherwise failed
\* cycles: out of backoff update_interval is UPDATE_INTERVAL; in backoff the
\* throttle counter is at least 1 and update_interval is the capped backoff
\* interval of the counter; so the interval always lies between
\* UPDATE_INTERVAL and BACKOFF_MAX.
C33_IntervalFollowsBackoffState ==
    /\ ~in_backoff => update_interval = UPDATE_INTERVAL
    /\ in_backoff => /\ throttle_count >= 1
                     /\ update_interval = CappedBackoff(throttle_count)
    /\ UPDATE_INTERVAL <= update_interval
    /\ update_interval <= BACKOFF_MAX

\* a cycle failed in the fetch while the coordinator was in backoff with
\* the counter at 2 and the interval at 300 s
C33_Witness ==
    /\ last_cycle.kind = "error"
    /\ in_backoff
    /\ throttle_count = 2
    /\ update_interval = 300
    /\ ~last_good.isNone

-----------------------------------------------------------------------------
(* The baseline of the change detector *)

\* the keys of the entries of line L in snapshot s
KeysOf(s, L) == {KeyOf(s.dict[L][i]) : i \in 1..Len(s.dict[L])}

\* line L carries only the synthetic normal-service entry in snapshot s
OnlySyntheticIn(s, L) ==
    Len(s.dict[L]) = 1 /\ IsSynthetic(s.dict[L][1])

\* the last two cycles were both successful
TwoSuccessesInARow ==
    /\ Compared
    /\ success_since # <<>>
    /\ success_since[1] < last_cycle.at

\* C34: a watched line that carries only the synthetic normal-service entry
\* in two consecutive successful cycles gets no NEW and no REMOVED event in
\* the second of them.
C34_QuietLineNoEvents ==
    TwoSuccessesInARow =>
        \A L \in Watched :
            (OnlySyntheticIn(prior_good, L) /\ OnlySyntheticIn(last_good, L))
                => (EventsOn(L, "NEW") = {} /\ EventsOn(L, "REMOVED") = {})

\* C37: the baseline of the change detector is the key sets of the snapshot
\* of the last successful cycle (empty before the first): rate-limited and
\* failed cycles leave it alone and log no event, and a successful cycle,
\* also the first one after a backoff period, logs the difference between
\* its snapshot and the snapshot of the successful cycle before it.
C37_BaselineOnlyBySuccess ==
    /\ previous_disruptions =
           IF last_good.isNone THEN <<>>
           ELSE [L \in DOMAIN last_good.dict |-> KeysOf(last_good, L)]
    /\ outcome \in {"failed", "cached"} => events = {}
    /\ Compared =>
           \A L \in Watched :
               /\ {e.id : e \in EventsOn(L, "NEW")}
                      = KeysOf(last_good, L) \ KeysOf(prior_good, L)
               /\ {e.id : e \in EventsOn(L, "REMOVED")}
                      = KeysOf(prior_good, L) \ KeysOf(last_good, L)

\* the cache was replaced by a cycle the detector made fail, then served by
\* a rate-limited cycle, and the baseline is still that of the successful
\* cycle before
C37_Witness ==
    /\ Throttled
    /\ outcome = "cached"
    /\ ~last_good.isNone
    /\ cached_data # last_good
    /\ previous_disruptions =
           [L \in DOMAIN last_good.dict |-> KeysOf(last_good, L)]

-----------------------------------------------------------------------------
(* Entries of other lines *)

\* element e names no line of the watch-list
Unwatched(e) == \A L \in Watched : ~References(e, L)

\* the parse result is the one of the feed without its k-th element
AsIfAbsent(k) ==
    data.dict = ParseResponse(Without(feed, k), lines, parsed_at[1])

\* C35: a raw entry that references no watched line never changes the list
\* of a watched line: the result equals the result of the feed without it,
\* also when the entry is malformed and its processing raises; the
\* parse-error placeholder is recorded only for a line that a raising entry
\* concerns.
C35_UnwatchedEntryChangesNothing ==
    ~data.isNone =>
        /\ \A k \in 1..Len(feed) : Unwatched(feed[k]) => AsIfAbsent(k)
        /\ \A L \in Watched :
               LineFailed(L)
                   => \E r \in 1..Len(feed) :
                          RaisesAt(r) /\ References(feed[r], L)

\* the same, for the entries of other lines whose processing does not raise
C35_UnwatchedSoundEntryChangesNothing ==
    ~data.isNone =>
        \A k \in 1..Len(feed) :
            (Unwatched(feed[k]) /\ ~RaisesAt(k)) => AsIfAbsent(k)

-----------------------------------------------------------------------------
(* The status of one situation over time *)

\* the place of a status in the life of a situation
Stage(st) == IF st = "planned" THEN 1 ELSE IF st = "open" THEN 2 ELSE 3

\* the one situation of the feed has a Progress and a validity window that
\* starts and does not end before it starts
Ordinary(e) ==
    /\ e.Progress # None
    /\ HasStart(e)
    /\ \/ Falsy(EndOf(e))
       \/ /\ IsInstant(EndOf(e))
          /\ Timestamp(StartOf(e)) <= Timestamp(EndOf(e))

\* the document has been parsed at two successive times
ParsedTwice == ~data.isNone /\ ~prior_good.isNone

\* C38: for a fixed situation with start <= end (or no end) and an unchanged
\* Progress, the status at a parse time is PLANNED before the start, then
\* ACTIVE (EXPIRED if Progress is "closed"), then EXPIRED after the end; over
\* successive parse times it only moves forward: never ACTIVE or PLANNED
\* again after EXPIRED, never PLANNED again after ACTIVE.
C38_StatusMovesForward ==
    \A L \in Watched :
        (~data.isNone /\ Ordinary(feed[1]) /\ References(feed[1], L))
            => /\ \A j \in 1..Len(ListOf(L)) :
                      ListOf(L)[j].status = ExpectedStatus(feed[1])
               /\ ParsedTwice
                      => \A i \in 1..Len(prior_good.dict[L]) :
                             \A j \in 1..Len(ListOf(L)) :
                                 Stage(prior_good.dict[L][i].status)
                                     <= Stage(ListOf(L)[j].status)

\* a situation tagged "open" was ACTIVE at one parse and EXPIRED at a later
\* one, and one was PLANNED at one parse and ACTIVE at a later one
C38_Witness ==
    /\ ParsedTwice
    /\ Ordinary(feed[1])
    /\ feed[1].Progress = Chars_open
    /\ \E L \in Watched :
           /\ References(feed[1], L)
           /\ prior_good.dict[L][1].status = "open"
           /\ ListOf(L)[1].status = "expired"
           /\ ~IsSynthetic(prior_good.dict[L][1])

-----------------------------------------------------------------------------
(* Reading a snapshot that has aged *)

\* " | ", the separator of the combined state
PipeSep == <<" ", "|", " ">>

\* the text s is the state v or one of its " | "-separated parts
Includes(v, s) ==
    /\ v \notin {None, TypeErrorRaised}
    /\ \E a \in 0..Len(v) :
           /\ a + Len(s) <= Len(v)
           /\ SubSeq(v, a + 1, a + Len(s)) = s
           /\ a = 0 \/ (a >= 3 /\ SubSeq(v, a - 2, a) = PipeSep)
           /\ \/ a + Len(s) = Len(v)
              \/ SubSeq(v, a + Len(s) + 1, a + Len(s) + 3) = PipeSep

\* no currently active entry of line L lacks a summary text
ActiveHaveText(L) ==
    \A i \in 1..Len(ListOf(L)) :
        ActiveNow(ListOf(L)[i]) => ListOf(L)[i].summary # None

\* the snapshot the sensors read was computed before the present time
StaleSnapshot == ~last_good.isNone /\ parsed_at # <<>> /\ parsed_at[1] < now

\* C36: at any read time, against whatever snapshot is current (fresh, or
\* cached during backoff), the state of a line sensor includes the summary of
\* a situation exactly if the situation is ACTIVE in the snapshot and the
\* clock at the read lies within its validity window (no end: open-ended).
C36_ShownIffActiveAtRead ==
    SensorsRead =>
        \A L \in DOMAIN sensor_value :
            \A i \in 1..Len(ListOf(L)) :
                Includes(sensor_value[L], ListOf(L)[i].summary)
                    <=> ActiveNow(ListOf(L)[i])

\* the same, for the lines whose currently active entries all have a summary
\* text
C36_ShownIffActiveAtReadWithText ==
    SensorsRead =>
        \A L \in DOMAIN sensor_value :
            ActiveHaveText(L) =>
                \A i \in 1..Len(ListOf(L)) :
                    Includes(sensor_value[L], ListOf(L)[i].summary)
                        <=> ActiveNow(ListOf(L)[i])

\* a snapshot served from the cache during backoff holds an ACTIVE entry
\* whose end has passed, and the sensor reads normal service
C36_StaleActiveNotShown ==
    /\ SensorsRead
    /\ outcome = "cached"
    /\ in_backoff
    /\ \E L \in DOMAIN sensor_value :
           /\ ListOf(L)[1].status = "open"
           /\ ListOf(L)[1].valid_to # NoTime
           /\ Timestamp(ListOf(L)[1].valid_to) < now
           /\ sensor_value[L] = STATE_NORMAL

-----------------------------------------------------------------------------
(* The registry and the watch-list after a setup *)

\* the effective watch-list: "lines_to_check" of the options when present,
\* otherwise of the data
CurrentLines ==
    IF config_entry.options # <<>> THEN config_entry.options[1]
    ELSE config_entry.data.lines_to_check

\* the line reference with every ":" replaced by "_"
Underscored(l) == [i \in 1..Len(l) |-> IF l[i] = ":" THEN "_" ELSE l[i]]

\* '<entry_id>_<line>' of every currently configured line, and
\* '<entry_id>_summary' while summary sensors are enabled
ExpectedIds ==
    {EntryId \o <<"_">> \o Underscored(CurrentLines[i]) :
         i \in 1..Len(CurrentLines)}
    \cup (IF config_entry.data.create_summary_sensors
          THEN {EntryId \o <<"_","s","u","m","m","a","r","y">>} ELSE {})

\* the step in which the sensor platform is set up
PlatformIsSetUp == ~entry.sensors /\ entry'.sensors

\* the cleanup of a setup leaves a registry entity exactly if its id is
\* expected, and reports what it removed
CleanupByExpectedId ==
    PlatformIsSetUp =>
        /\ \A u \in entity_registry :
               u \in entity_registry' <=> u \in ExpectedIds
        /\ removed' = entity_registry \ ExpectedIds

\* C31: after a setup, whatever the watch-list changes before it, a registry
\* entity of the config entry survives exactly if its unique id is
\* '<entry_id>_<line with ":" replaced by "_">' of a currently configured
\* line, or '<entry_id>_summary' while summary sensors are enabled; every
\* other entity of the entry is removed and none of a still configured line.
C31_RegistryFollowsWatchList ==
    /\ [](entry.sensors => /\ entity_registry = ExpectedIds
                           /\ removed \cap ExpectedIds = {})
    /\ [][CleanupByExpectedId]_vars

\* a reload after a changed selection removed the entity of a line that was
\* dropped and kept the entity of a line that stayed and the summary entity
C31_Witness ==
    /\ entry.sensors
    /\ config_entry.data.lines_to_check = <<LineA, LineB>>
    /\ config_entry.options = <<<<LineB>>>>
    /\ removed = {<<"e","1","_","A","_","1">>}
    /\ entity_registry = {<<"e","1","_","B","_","2">>,
                          <<"e","1","_","s","u","m","m","a","r","y">>}

\* the line references of the line sensors
SensorLines == {entities.line_refs[i] : i \in 1..Len(entities.line_refs)}

\* C32: the api client and the sensors use the same effective watch-list
\* ("lines_to_check" of the options when present, otherwise of the data), so
\* the line_ref of every line sensor is a key of every snapshot of a
\* successful parse.
C32_SensorsAndClientShareWatchList ==
    entry.sensors =>
        /\ lines = CurrentLines
        /\ entities.line_refs = CurrentLines
        /\ ~data.isNone => \A line_ref \in SensorLines :
                               line_ref \in DOMAIN data.dict

\* the sensors are created for the effective watch-list of the moment the
\* platform is set up
C32_SensorsUseEffectiveList ==
    entry.sensors => entities.line_refs = CurrentLines

\* the api client is constructed for the effective watch-list of the moment
\* async_setup_entry starts
C32_ClientBuiltFromEffectiveList ==
    [][(entry.setup # "pending" /\ entry'.setup = "pending")
           => lines' = CurrentLines']_vars

====
